---- MODULE Spec2Model ----
(***************************************************************************)
(* Model of src/app.py: a Streamlit page.  Every interaction re-executes   *)
(* the script top to bottom (one "run"); st.cache_resource and the file    *)
(* rf_model.pkl are the only state kept between runs of one process.       *)
(***************************************************************************)
EXTENDS Integers, Sequences, FiniteSets, TLC

(* ---------------------------------------------------------------- bounds *)
\* most data rows in one uploaded CSV
MaxRows == 3
\* most download attempts of the model artifact in one process
MaxFetches == 2

(* ------------------------------------------------------------ input sets *)
Labels == {"Great", "Average", "Poor"}

\* model.feature_names_in_ of the artifacts considered
Schemas ==
  { <<"room_type", "price", "host_is_superhost">>,
    <<"price", "neighbourhood_group", "room_type">>,
    <<"neighbourhood_group", "price">> }

\* header rows of the uploaded CSV files considered (<<>>: an empty file)
Headers ==
  { <<>>,
    <<"room_type", "price">>,
    <<"neighbourhood_group", "name">> }

\* Cell values of a column.  Naturals are numeric cells; a negative value
\* stands for a cell holding text (such as "$1,200.00"), which pandas
\* reads as a string and the classifier cannot convert to a number.
ColVals(c) ==
  CASE c = "room_type"           -> {1, 2}
    [] c = "neighbourhood_group" -> {1, 2}
    [] c = "price"               -> {10, -1}
    [] OTHER                     -> {-1}

IsNumeric(v) == v >= 0

Range(f) == { f[i] : i \in DOMAIN f }

\* the data lines possible under header h: one value per header column
CsvLines(h) ==
  LET all == UNION { ColVals(h[i]) : i \in 1..Len(h) }
  IN  { l \in [1..Len(h) -> all] : \A i \in 1..Len(h) : l[i] \in ColVals(h[i]) }

\* st.file_uploader's value: None, bytes read_csv rejects, or a CSV text
\* with a header row and up to MaxRows data lines
NoFile == [kind |-> "none", header |-> <<>>, lines |-> <<>>]
Malformed == [kind |-> "malformed", header |-> <<>>, lines |-> <<>>]
CsvFiles ==
  UNION { { [kind |-> "csv", header |-> h, lines |-> ls] :
              ls \in UNION { [1..n -> CsvLines(h)] :
                               n \in 0..(IF h = <<>> THEN 0 ELSE MaxRows) } } :
          h \in Headers }
Uploads == {NoFile, Malformed} \cup CsvFiles

(* ------------------------------------------------- tables (DataFrames) *)
\* A DataFrame: its column names in order and its rows, each a function
\* from column name to cell.
EmptyTable == [cols |-> <<>>, rows |-> <<>>]

IndexOf(seq, x) == CHOOSE i \in 1..Len(seq) : seq[i] = x

HasCol(t, c) == c \in Range(t.cols)

\* pd.read_csv on a well-formed text: the header names the columns
ParseCsv(f) ==
  [cols |-> f.header,
   rows |-> [i \in 1..Len(f.lines) |->
               [c \in Range(f.header) |-> f.lines[i][IndexOf(f.header, c)]]]]

\* pd.read_csv raises on unparsable bytes and on an empty file
ParseFails(f) == f.kind = "malformed" \/ f.header = <<>>

\* df[col] = v : a new last column holding v on every row (col absent)
AddColumn(t, c, v) ==
  [cols |-> Append(t.cols, c),
   rows |-> [i \in 1..Len(t.rows) |->
               [d \in (DOMAIN t.rows[i]) \cup {c} |->
                  IF d = c THEN v ELSE t.rows[i][d]]]]

\* df[names] : the named columns, in the order of names
SelectColumns(t, names) ==
  [cols |-> names,
   rows |-> [i \in 1..Len(t.rows) |-> [c \in Range(names) |-> t.rows[i][c]]]]

\* the value written into a feature column the upload lacks
FillValue == 0

RECURSIVE FillMissingWith(_, _, _)
\* for col in names: if col not in df.columns: df[col] = v
FillMissingWith(t, names, v) ==
  IF names = <<>> THEN t
  ELSE LET c == Head(names)
           t1 == IF HasCol(t, c) THEN t ELSE AddColumn(t, c, v)
       IN  FillMissingWith(t1, Tail(names), v)

\* (mutant) the missing features are filled with 1 instead of 0
FillMissingOnes(t, names) == FillMissingWith(t, names, 1)

\* for col in expected_cols: if col not in df.columns: df[col] = 0
FillMissing(t, names) == FillMissingWith(t, names, FillValue)

\* (mutant) the align block without the final df = df[expected_cols]
AlignNoSelect(t, expected_cols) == FillMissing(t, expected_cols)

\* the align block: fill what is missing, then keep expected_cols only
Align(t, expected_cols) == SelectColumns(FillMissing(t, expected_cols), expected_cols)

(* ------------------------------------------------------------ predict *)
\* model.predict of the scikit-learn forest validates its input first: it
\* raises ValueError on a value it cannot convert to a number and on an
\* array of 0 samples ("a minimum of 1 is required").
PredictFails(t) ==
  \/ Len(t.rows) = 0
  \/ \E i \in 1..Len(t.rows) : \E c \in DOMAIN t.rows[i] : ~IsNumeric(t.rows[i][c])

\* df["Predicted_Rating"] = predictions : one label per row, as last column
WithPredictions(t, predictions) ==
  [cols |-> Append(t.cols, "Predicted_Rating"),
   rows |-> [i \in 1..Len(t.rows) |->
               [d \in (DOMAIN t.rows[i]) \cup {"Predicted_Rating"} |->
                  IF d = "Predicted_Rating" THEN predictions[i] ELSE t.rows[i][d]]]]

(* ------------------------------------------------------------- filter *)
RECURSIVE UniqueUpTo(_, _)
\* the distinct values of seq[1..n] in order of first appearance
UniqueUpTo(seq, n) ==
  IF n = 0 THEN <<>>
  ELSE LET u == UniqueUpTo(seq, n - 1)
       IN  IF seq[n] \in Range(u) THEN u ELSE Append(u, seq[n])

\* df[c].unique()
Unique(t, c) == UniqueUpTo([i \in 1..Len(t.rows) |-> t.rows[i][c]], Len(t.rows))

\* st.selectbox(label, options) with the widget at position idx (1 unless
\* the user moved it): <<value>>, or <<>> (None) when there are no options
Selectbox(options, idx) == IF options = <<>> THEN <<>> ELSE <<options[idx]>>

\* the positions the user can put a selectbox at
Positions(options) == IF options = <<>> THEN {1} ELSE 1..Len(options)

\* df[df[c] == selected]
WhereEquals(t, c, selected) ==
  [t EXCEPT !.rows = SelectSeq(t.rows, LAMBDA r : r[c] \in Range(selected))]

\* lines 73-75: the room-type filter, applied whenever the column exists
FilterRoom(t, idx) ==
  IF HasCol(t, "room_type")
  THEN WhereEquals(t, "room_type", Selectbox(Unique(t, "room_type"), idx))
  ELSE t

\* lines 76-81: group_df, the rows of one neighbourhood group when the
\* column exists, else a copy of df
FilterGroup(t, idx) ==
  IF HasCol(t, "neighbourhood_group")
  THEN WhereEquals(t, "neighbourhood_group",
                   Selectbox(Unique(t, "neighbourhood_group"), idx))
  ELSE t

\* selected_group (<<>> is None)
SelectedGroup(t, idx) ==
  IF HasCol(t, "neighbourhood_group")
  THEN Selectbox(Unique(t, "neighbourhood_group"), idx)
  ELSE <<>>

\* Python truth of selected_group: None and 0 are false
Truthy(selected) == selected # <<>> /\ selected[1] # 0

(* ------------------------------------------------------------- report *)
\* group_df["Predicted_Rating"].value_counts(): label -> number of rows,
\* for the labels that occur
ValueCounts(t) ==
  LET present == { t.rows[i]["Predicted_Rating"] : i \in 1..Len(t.rows) }
  IN  [l \in present |-> Cardinality({ i \in 1..Len(t.rows) :
                                         t.rows[i]["Predicted_Rating"] = l })]

\* round(num / den) to the nearest integer, ties to even (numpy's round)
RoundHalfEven(num, den) ==
  LET q == num \div den
      r == num % den
  IN  IF 2 * r < den THEN q
      ELSE IF 2 * r > den THEN q + 1
      ELSE IF q % 2 = 0 THEN q ELSE q + 1

\* (mutant) value_counts() without normalize=True: counts times 100
ProportionsOfCounts(t) ==
  LET counted == ValueCounts(t)
  IN  [l \in DOMAIN counted |-> counted[l] * 10000]

\* value_counts(normalize=True) * 100, rounded to two decimals: label ->
\* percentage in hundredths of a percent (3333 is shown as "33.33%")
Proportions(t) ==
  LET counted == ValueCounts(t)
  IN  [l \in DOMAIN counted |-> RoundHalfEven(counted[l] * 10000, Len(t.rows))]

\* group_df.to_csv(index=False): the header row, then one line per row
\* with the cells in column order
ToCsv(t) ==
  [kind |-> "csv",
   header |-> t.cols,
   lines |-> [i \in 1..Len(t.rows) |-> [k \in 1..Len(t.cols) |-> t.rows[i][t.cols[k]]]]]

NoCsv == [kind |-> "none", header |-> <<>>, lines |-> <<>>]

(* -------------------------------------------------------------- state *)
VARIABLES
  fileExists,     \* rf_model.pkl is on disk
  fileGood,       \* its bytes deserialize (joblib.load succeeds on them)
  cache,          \* st.cache_resource holds load_model's return value
  S,              \* model.feature_names_in_ of the artifact
  fetchAttempts,  \* calls of gdown.download made by this process
  fileWrites,     \* times rf_model.pkl was written by this process
  pc,             \* where the current run of the script is
  uploaded_file,  \* the file_uploader's value in this run
  df,             \* the variable df
  group_df,       \* the variable group_df
  predict_arg,    \* the table model.predict was called with
  labeled,        \* df right after line 67, before any filtering
  room_idx,       \* position of the "Filter by Room Type" selectbox
  group_idx,      \* position of the "Group by Neighbourhood" selectbox
  shown,          \* the elements this run has put on the page
  results_table,  \* the table shown under "Prediction Results Table"
  percent_df,     \* the table shown under "Rating Proportion"
  counts,         \* the counts the chart was drawn from
  csv,            \* the bytes handed to the download button
  steps,          \* the calls this run has made, in order
  failure,        \* what failed in this run: none, load, parse, predict
  existsCheck     \* what os.path.exists answered in this run's load_model

vars ==
  << fileExists, fileGood, cache, S, fetchAttempts, fileWrites, pc,
     uploaded_file, df, group_df, predict_arg, labeled, room_idx, group_idx,
     shown, results_table, percent_df, counts, csv, steps, failure,
     existsCheck >>

process == << fileExists, fileGood, cache, S, fetchAttempts, fileWrites >>
tables == << df, group_df, predict_arg, labeled, room_idx, group_idx >>
outputs == << results_table, percent_df, counts, csv >>

\* the state a run starts from: nothing computed, nothing on the page
FreshRun ==
  /\ df = EmptyTable /\ group_df = EmptyTable
  /\ predict_arg = EmptyTable /\ labeled = EmptyTable
  /\ room_idx = 0 /\ group_idx = 0
  /\ shown = {}
  /\ results_table = EmptyTable /\ percent_df = <<>> /\ counts = <<>>
  /\ csv = NoCsv
  /\ steps = <<>> /\ failure = "none" /\ existsCheck = "unasked"

Init ==
  /\ fileExists \in BOOLEAN
  /\ fileGood \in (IF fileExists THEN BOOLEAN ELSE {FALSE})
  /\ cache = FALSE
  /\ S \in Schemas
  /\ fetchAttempts = 0 /\ fileWrites = 0
  /\ pc = "idle"
  /\ uploaded_file = NoFile
  /\ FreshRun

(* ------------------------------------------------------------ a run *)
\* Lines 8-19: an interaction starts the script again from the top, on a
\* cleared page.
StartRun ==
  /\ pc \in {"idle", "done", "stopped"}
  /\ pc' = "upload"
  /\ uploaded_file' = NoFile
  /\ df' = EmptyTable /\ group_df' = EmptyTable
  /\ predict_arg' = EmptyTable /\ labeled' = EmptyTable
  /\ room_idx' = 0 /\ group_idx' = 0
  /\ shown' = {}
  /\ results_table' = EmptyTable /\ percent_df' = <<>> /\ counts' = <<>>
  /\ csv' = NoCsv
  /\ steps' = <<>> /\ failure' = "none" /\ existsCheck' = "unasked"
  /\ UNCHANGED process

\* Lines 22-25: the file_uploader returns what the user has uploaded.
Upload ==
  /\ pc = "upload"
  /\ \E f \in Uploads : uploaded_file' = f
  /\ pc' = "load"
  /\ UNCHANGED << process, tables, shown, outputs, steps, failure, existsCheck >>

\* Line 43 with the cached resource present: load_model's body is not run.
CacheHit ==
  /\ pc = "load" /\ cache
  /\ pc' = "script"
  /\ UNCHANGED << process, uploaded_file, tables, shown, outputs, steps,
                  failure, existsCheck >>

\* (mutant) line 32 without the existence test: always download
NeedsFetchAlways(exists) == TRUE

\* line 32: if not os.path.exists(output)
NeedsFetch(exists) == ~exists

\* (mutant) no st.stop(): the script goes on after the failed load
LoadFailureContinues == "script"

\* line 41: st.stop() ends the run
LoadFailurePc == "stopped"

\* Lines 28-43 with nothing cached: load_model's body.  gdown.download
\* either writes the file, raises, or reports the failure and returns None;
\* the bytes it wrote may or may not deserialize.
LoadModel ==
  /\ pc = "load" /\ ~cache
  /\ existsCheck' = IF fileExists THEN "present" ELSE "absent"
  /\ IF NeedsFetch(fileExists)
     THEN /\ fetchAttempts < MaxFetches
          /\ fetchAttempts' = fetchAttempts + 1
          /\ \E outcome \in {"written", "raised", "returned None"} :
             \E good \in BOOLEAN :
               \/ /\ outcome = "written"
                  /\ fileExists' = TRUE /\ fileGood' = good
                  /\ fileWrites' = fileWrites + 1
                  /\ IF good
                     THEN /\ cache' = TRUE /\ pc' = "script"
                          /\ failure' = "none"
                          /\ shown' = {"downloading", "downloaded"}
                     ELSE /\ cache' = FALSE /\ pc' = LoadFailurePc
                          /\ failure' = "load"
                          /\ shown' = {"downloading", "downloaded",
                                       "load_error", "exception"}
                  /\ steps' = <<"os.path.exists", "gdown.download", "joblib.load">>
               \/ /\ outcome = "raised" /\ good = FALSE
                  /\ UNCHANGED << fileExists, fileGood, fileWrites, cache >>
                  /\ pc' = "stopped" /\ failure' = "load"
                  /\ shown' = {"downloading", "exception"}
                  /\ steps' = <<"os.path.exists", "gdown.download">>
               \/ /\ outcome = "returned None" /\ good = FALSE
                  /\ UNCHANGED << fileExists, fileGood, fileWrites >>
                  /\ IF fileExists /\ fileGood
                     THEN /\ cache' = TRUE /\ pc' = "script"
                          /\ failure' = "none"
                          /\ shown' = {"downloading", "downloaded"}
                     ELSE /\ cache' = FALSE /\ pc' = LoadFailurePc
                          /\ failure' = "load"
                          /\ shown' = {"downloading", "downloaded",
                                       "load_error", "exception"}
                  /\ steps' = <<"os.path.exists", "gdown.download", "joblib.load">>
     ELSE /\ UNCHANGED << fileExists, fileGood, fileWrites, fetchAttempts >>
          /\ steps' = <<"os.path.exists", "joblib.load">>
          /\ IF fileExists /\ fileGood
             THEN /\ cache' = TRUE /\ pc' = "script"
                  /\ failure' = "none" /\ shown' = {}
             ELSE /\ cache' = FALSE /\ pc' = LoadFailurePc
                  /\ failure' = "load"
                  /\ shown' = {"load_error", "exception"}
  /\ UNCHANGED << S, uploaded_file, tables, outputs >>

\* Line 52 with no file uploaded: the script ends.
NoUpload ==
  /\ pc = "script" /\ uploaded_file.kind = "none"
  /\ pc' = "done"
  /\ UNCHANGED << process, uploaded_file, tables, shown, outputs, steps,
                  failure, existsCheck >>

\* Lines 54-56: parse the upload and show its first rows.
ReadCsv ==
  /\ pc = "script" /\ uploaded_file.kind # "none"
  /\ steps' = Append(steps, "read_csv")
  /\ IF ParseFails(uploaded_file)
     THEN /\ pc' = "except" /\ failure' = "parse"
          /\ UNCHANGED << df, shown >>
     ELSE /\ pc' = "align"
          /\ df' = ParseCsv(uploaded_file)
          /\ shown' = shown \cup {"preview"}
          /\ UNCHANGED failure
  /\ UNCHANGED << process, uploaded_file, group_df, predict_arg, labeled,
                  room_idx, group_idx, outputs, existsCheck >>

\* Lines 59-63: align df with model.feature_names_in_.
AlignStep ==
  /\ pc = "align"
  /\ df' = Align(df, S)
  /\ steps' = Append(steps, "align")
  /\ pc' = "predict"
  /\ UNCHANGED << process, uploaded_file, group_df, predict_arg, labeled,
                  room_idx, group_idx, shown, outputs, failure, existsCheck >>

\* Lines 66-69: predict, append the labels, announce the count.
Predict ==
  /\ pc = "predict"
  /\ predict_arg' = df
  /\ steps' = Append(steps, "predict")
  /\ IF PredictFails(df)
     THEN /\ pc' = "except" /\ failure' = "predict"
          /\ UNCHANGED << df, labeled, shown >>
     ELSE /\ \E predictions \in [1..Len(df.rows) -> Labels] :
               df' = WithPredictions(df, predictions)
          /\ labeled' = df'
          /\ shown' = shown \cup {"success"}
          /\ pc' = "filter"
          /\ UNCHANGED failure
  /\ UNCHANGED << process, uploaded_file, group_df, room_idx, group_idx,
                  outputs, existsCheck >>

\* Lines 72-81: the sidebar selectboxes and the two filters.
Filter ==
  /\ pc = "filter"
  /\ \E r \in (IF HasCol(df, "room_type")
               THEN Positions(Unique(df, "room_type")) ELSE {0}) :
       /\ room_idx' = r
       /\ df' = FilterRoom(df, r)
  /\ \E g \in (IF HasCol(df', "neighbourhood_group")
               THEN Positions(Unique(df', "neighbourhood_group")) ELSE {0}) :
       /\ group_idx' = g
       /\ group_df' = FilterGroup(df', g)
  /\ steps' = Append(steps, "filter")
  /\ pc' = "render"
  /\ UNCHANGED << process, uploaded_file, predict_arg, labeled, shown,
                  outputs, failure, existsCheck >>

\* Lines 84-130: results table, proportions, chart (any of the three
\* kinds draws the same counts), group-wise chart, feature importance.
Render ==
  /\ pc = "render"
  /\ results_table' = group_df
  /\ percent_df' = Proportions(group_df)
  /\ \E chart_option \in {"Bar", "Horizontal", "Pie"} :
       counts' = ValueCounts(group_df)
  /\ shown' = shown \cup {"results", "proportions", "chart", "importance"}
                    \cup (IF Truthy(SelectedGroup(df, group_idx))
                             /\ HasCol(df, "room_type")
                          THEN {"groupwise"} ELSE {})
  /\ steps' = Append(steps, "render")
  /\ pc' = "download"
  /\ UNCHANGED << process, uploaded_file, tables, csv, failure, existsCheck >>

\* Lines 133-134: the download button over group_df's CSV text.
Download ==
  /\ pc = "download"
  /\ csv' = ToCsv(group_df)
  /\ shown' = shown \cup {"download"}
  /\ steps' = Append(steps, "to_csv")
  /\ pc' = "done"
  /\ UNCHANGED << process, uploaded_file, tables, results_table, percent_df,
                  counts, failure, existsCheck >>

\* (mutant) the handler shows the message without the exception detail
ExceptMessageOnly == {"error"}

\* lines 137-138: st.error(...) and st.exception(e)
ExceptOutputs == {"error", "exception"}

\* Lines 136-138: the handler of the upload block.
Except ==
  /\ pc = "except"
  /\ shown' = shown \cup ExceptOutputs
  /\ steps' = Append(steps, "except")
  /\ pc' = "done"
  /\ UNCHANGED << process, uploaded_file, tables, outputs, failure, existsCheck >>

Next ==
  \/ StartRun
  \/ Upload
  \/ CacheHit
  \/ LoadModel
  \/ NoUpload
  \/ ReadCsv
  \/ AlignStep
  \/ Predict
  \/ Filter
  \/ Render
  \/ Download
  \/ Except

Spec == Init /\ [][Next]_vars

(* ------------------------------------------------------------- claims *)
Called(step) == step \in Range(steps)

Times(step) == Cardinality({ i \in 1..Len(steps) : steps[i] = step })

\* what the upload block can put on the page apart from the error report
RunOutputs ==
  {"preview", "success", "results", "proportions", "chart", "groupwise",
   "importance", "download"}

\* the calls of the upload block
PipelineSteps == {"read_csv", "align", "predict", "filter", "render", "to_csv", "except"}

RECURSIVE SumOver(_, _)
SumOver(f, keys) ==
  IF keys = {} THEN 0
  ELSE LET k == CHOOSE x \in keys : TRUE
       IN  f[k] + SumOver(f, keys \ {k})

Abs(x) == IF x < 0 THEN -x ELSE x

\* the aligned table: df between the align block and predict, afterwards
\* the table predict was called with
AlignedTable == IF pc = "predict" THEN df ELSE predict_arg

\* C1 (as stated): once the labels are appended, the labeled table, the
\* displayed results table and the exported CSV have the uploaded table's
\* columns plus the one column Predicted_Rating.
C1_LabeledKeepsUploadedColumns ==
  LET expected == Range(uploaded_file.header) \cup {"Predicted_Rating"}
  IN  /\ "success" \in shown => Range(labeled.cols) = expected
      /\ "results" \in shown => Range(results_table.cols) = expected
      /\ "download" \in shown => Range(csv.header) = expected

\* C2: the table model.predict is called with has exactly the columns of
\* the expected schema, in the schema's order, on every row, whatever the
\* columns of the upload were.
C2_PredictGetsSchemaColumns ==
  Called("predict") =>
    /\ predict_arg.cols = S
    /\ Len(predict_arg.rows) = Len(uploaded_file.lines)
    /\ \A i \in 1..Len(predict_arg.rows) : DOMAIN predict_arg.rows[i] = Range(S)

\* C2 witness: predict was called on an upload that has a column outside
\* the schema, lacks a column of the schema, and has rows.
C2_Witness ==
  /\ Called("predict")
  /\ Len(uploaded_file.lines) >= 2
  /\ Range(uploaded_file.header) \ Range(S) # {}
  /\ Range(S) \ Range(uploaded_file.header) # {}
  /\ Range(S) \cap Range(uploaded_file.header) # {}

\* C3: after alignment every feature of the schema that the upload lacks
\* is 0 on every row, one aligned row per uploaded row; and alignment does
\* not fail: a parsed upload always gets aligned, and the align step never
\* leads to the error branch.
C3_MissingFeaturesAreZero ==
  /\ Called("align") =>
       /\ Len(AlignedTable.rows) = Len(uploaded_file.lines)
       /\ \A f \in Range(S) \ Range(uploaded_file.header) :
            \A i \in 1..Len(AlignedTable.rows) : AlignedTable.rows[i][f] = 0
  /\ (Called("read_csv") /\ failure # "parse" /\ pc # "align") => Called("align")
  /\ (Called("align") /\ ~Called("predict")) => (pc = "predict" /\ failure = "none")

\* C3 witness: the spec's scenario, columns [room_type, price] against the
\* schema [room_type, price, host_is_superhost], with rows, aligned and
\* predicted.
C3_Witness ==
  /\ uploaded_file.header = <<"room_type", "price">>
  /\ S = <<"room_type", "price", "host_is_superhost">>
  /\ Len(uploaded_file.lines) >= 2
  /\ "success" \in shown
  /\ \A i \in 1..Len(predict_arg.rows) : predict_arg.rows[i]["host_is_superhost"] = 0

\* C4 (as stated): after a failure of the upload block nothing the block
\* renders is on the page.
C4_NoPartialOutput ==
  failure \in {"parse", "predict"} => shown \cap RunOutputs = {}

\* C4 (amended): after a failure the page shows the error message and the
\* exception detail and nothing of the failing step or of a later one; what
\* earlier steps rendered stays: nothing after a parse error, the data
\* preview alone after a prediction error.
C4_OutputsUpToFailure ==
  /\ failure = "parse" => shown \cap RunOutputs = {}
  /\ failure = "predict" => shown \cap RunOutputs = {"preview"}
  /\ failure \in {"parse", "predict"} =>
       /\ results_table = EmptyTable /\ percent_df = <<>> /\ counts = <<>>
       /\ csv = NoCsv
       /\ pc \in {"except", "done"}
       /\ pc = "done" => {"error", "exception"} \subseteq shown

\* C4 witness: a prediction that failed on a table with rows, handled.
C4_Witness ==
  /\ failure = "predict"
  /\ Len(predict_arg.rows) >= 1
  /\ pc = "done"
  /\ "preview" \in shown

\* C5: when load_model fails, the run is halted: no step of the upload
\* block has run or runs, nothing of it is on the page, nothing is cached,
\* and load_model called the download and the deserialization at most once.
C5_LoadFailureHalts ==
  failure = "load" =>
    /\ pc = "stopped"
    /\ Range(steps) \cap PipelineSteps = {}
    /\ shown \cap RunOutputs = {}
    /\ ~cache
    /\ Times("gdown.download") <= 1
    /\ Times("joblib.load") <= 1

\* C5 witness: a run with an uploaded CSV whose model load failed at the
\* deserialization.
C5_Witness ==
  /\ failure = "load"
  /\ Called("joblib.load")
  /\ uploaded_file.kind = "csv"
  /\ Len(uploaded_file.lines) >= 1

\* C6: when the artifact file exists as load_model runs, load_model makes
\* no download and goes straight to deserializing the file.
C6_NoFetchWhenFilePresent ==
  existsCheck = "present" =>
    /\ ~Called("gdown.download")
    /\ Called("joblib.load")
    /\ "downloading" \notin shown

\* C6 witness: load_model ran with the file present and loaded it without
\* the process ever having fetched.
C6_Witness ==
  /\ existsCheck = "present"
  /\ cache
  /\ fetchAttempts = 0

\* C7 (as stated): over the runs of a process the artifact is fetched at
\* most once and the file written at most once.
C7_FetchedAtMostOnce == fetchAttempts <= 1 /\ fileWrites <= 1

\* C7 (amended): the file is written at most once, and once it exists it
\* stays, is never written again and no further fetch is made; only a
\* fetch that wrote no file is made again by a later run.
C7_WrittenOnceThenReadOnly ==
  /\ [](fileWrites <= 1)
  /\ [][fileExists => /\ fileExists'
                      /\ fileWrites' = fileWrites
                      /\ fetchAttempts' = fetchAttempts]_vars

\* C7 witness: a fetch failed, a later run fetched again and wrote the
\* file, and a run after that got the model from the cache.
C7_Witness ==
  /\ fetchAttempts = 2
  /\ fileWrites = 1
  /\ cache
  /\ pc = "script"
  /\ steps = <<>>

\* C8 (as stated): when the user leaves both selectboxes where they are,
\* every labeled row is in the results table and in the exported CSV.
C8_NoFilterExportsAll ==
  (pc = "done" /\ "download" \in shown /\ room_idx <= 1 /\ group_idx <= 1) =>
    /\ results_table.rows = labeled.rows
    /\ Len(csv.lines) = Len(labeled.rows)

\* C9: the proportions are those of the rows of the results table, which
\* are the rows charted and exported; each percentage is the label's share
\* rounded to two decimals, and the percentages sum to 100.00 within half
\* a hundredth per label.
C9_ProportionsOfCurrentRows ==
  "proportions" \in shown =>
    LET rows == results_table.rows
        n == Len(rows)
        present == { rows[i]["Predicted_Rating"] : i \in 1..n }
        share(l) == Cardinality({ i \in 1..n : rows[i]["Predicted_Rating"] = l })
    IN  /\ n >= 1
        /\ DOMAIN percent_df = present
        /\ DOMAIN counts = present
        /\ \A l \in present :
             /\ counts[l] = share(l)
             /\ 2 * Abs(percent_df[l] * n - 10000 * share(l)) <= n
        /\ 2 * Abs(SumOver(percent_df, present) - 10000) <= Cardinality(present)
        /\ "download" \in shown =>
             /\ csv.header = results_table.cols
             /\ Len(csv.lines) = n
             /\ \A i \in 1..n :
                  csv.lines[i][Len(csv.header)] = rows[i]["Predicted_Rating"]

\* C9 witness: three rows with three different labels, shown as 33.33%
\* each, which sum to 99.99.
C9_Witness ==
  /\ "proportions" \in shown
  /\ Len(results_table.rows) = 3
  /\ DOMAIN percent_df = Labels
  /\ SumOver(percent_df, Labels) = 9999

\* C10 (as stated): an upload with a header row and no data rows runs to
\* the end without the error branch, with an empty proportions table, a
\* chart and a header-only CSV.
C10_HeaderOnlyCompletes ==
  (/\ pc = "done"
   /\ uploaded_file.kind = "csv"
   /\ uploaded_file.header # <<>>
   /\ uploaded_file.lines = <<>>) =>
    /\ failure = "none"
    /\ "error" \notin shown
    /\ "proportions" \in shown /\ percent_df = <<>>
    /\ "chart" \in shown
    /\ "download" \in shown /\ csv.header # <<>> /\ csv.lines = <<>>

====
